---- MODULE Spec2Model ----
(***************************************************************************)
(* State-machine model of the FlappyBirdGame React component               *)
(* (src/src/components/FlappyBirdGame.tsx).                                *)
(*                                                                         *)
(* The source file holds two variants of the component: the first one      *)
(* (lines 1-534: GRAVITY 0.3, JUMP_FORCE -7, PIPE_SPEED 2, PIPE_GAP 200)   *)
(* and the second one (lines 535-1202: GRAVITY 0.25, JUMP_FORCE -6,        *)
(* PIPE_SPEED 1.5, PIPE_GAP 250, plus dolphins and frameCount).  The       *)
(* variable `variant` selects which of the two is running.                 *)
(*                                                                         *)
(* Lengths and velocities are JavaScript numbers.  They are modelled as    *)
(* integers counting twentieths of a canvas unit (Unit = 20), the          *)
(* coarsest grid that holds every constant of both variants (0.3 = 6/20,   *)
(* 0.25 = 5/20, 1.5 = 30/20).  In the second variant every constant is a   *)
(* dyadic rational, so the double arithmetic of the code is exact and the  *)
(* grid is the code's arithmetic.                                          *)
(***************************************************************************)
EXTENDS Integers, Sequences, FiniteSets

VARIABLES
  variant,     \* 1 or 2: which variant of the component is mounted
  gameState,   \* the React state `gameState` (all queued updaters applied)
  jumpDeps,    \* gameStarted/gameOver as captured by the `jump` callback
               \* that is bound to the input handlers (last committed render)
  last,        \* history: the operation that produced gameState
  prev,        \* history: gameState before that operation
  drawn,       \* the canvas: << >> while nothing is drawn, else <<s>> for
               \* the state s the last render pass has drawn
  twin,        \* the gameState of a second run of the component that gets
               \* the same frames, inputs and gapY draws (SpecPair only)
  mounted,     \* is the component mounted (effects run, no cleanup yet)?
  pending,     \* the animation-frame request the browser holds: "none", or
               \* the call that issued it, "mount" (the effect body) or
               \* "animate" (the callback); a callback consumes its request
               \* before it issues the next, so no two are held at once
  animationRef \* animationRef.current: the request whose id it holds

vars == <<variant, gameState, jumpDeps, last, prev, drawn, twin,
          mounted, pending, animationRef>>

-----------------------------------------------------------------------------
(* Scale and program constants (in twentieths of a canvas unit).            *)

Unit == 20

BASE_WIDTH == 400 * Unit
BASE_HEIGHT == 600 * Unit
BIRD_SIZE == 20 * Unit
PIPE_WIDTH == 60 * Unit
PIPE_GAP == IF variant = 1 THEN 200 * Unit ELSE 250 * Unit
GRAVITY == IF variant = 1 THEN 6 ELSE 5
JUMP_FORCE == IF variant = 1 THEN -7 * Unit ELSE -6 * Unit
PIPE_SPEED == IF variant = 1 THEN 2 * Unit ELSE 30

\* margin of the gap: gapY = Math.random() * (BASE_HEIGHT - PIPE_GAP - 2*margin) + margin
GapMargin == IF variant = 1 THEN 50 * Unit ELSE 75 * Unit
\* SpawnThreshold of half the first variant's distance
SpawnThreshold_Near == 100 * Unit
\* distance from the right boundary past which the next pipe is spawned
SpawnThreshold == IF variant = 1 THEN 200 * Unit ELSE 250 * Unit
\* FirstPipeX on the right boundary, as for the later pipes
FirstPipeX_AtEdge == BASE_WIDTH
\* x of the pipe spawned into an empty sequence
FirstPipeX == BASE_WIDTH + 150 * Unit
\* the explosion deactivates once its frame counter exceeds this
ExplosionFrames == 30
\* dolphins: spawn cadence, cap, speed per tick
DolphinPeriod == 180
DolphinCap == 2
DolphinSpeed == 30
\* jumpPhase is kept as the number n of `+= 0.05` applied to 0.  In double
\* arithmetic the accumulated value is <= 1 for n <= 19 and is
\* 1.0000000000000002 for n = 20, so `progress <= 1` holds iff n <= 19.
DolphinLastPhase == 19

-----------------------------------------------------------------------------
(* Bounds of the model.                                                      *)

\* ticks of the second variant before the session is started (frameCount
\* counts them, the first variant has no such counter)
MaxIdle == 2
\* ticks are explored until the score reaches this value
MaxScore == 2

-----------------------------------------------------------------------------
(* Values of the state.                                                      *)

\* useState initial value (lines 80-97 / 634-653) and the object resetGame
\* installs (lines 100-117 / 656-675).  The first variant has no dolphins
\* and no frameCount field: they stay <<>> and 0 in it.
InitialState ==
  [ bird        |-> [x |-> BASE_WIDTH \div 4, y |-> BASE_HEIGHT \div 2,
                     velocity |-> 0, radius |-> BIRD_SIZE \div 2],
    pipes       |-> << >>,
    dolphins    |-> << >>,
    score       |-> 0,
    gameStarted |-> FALSE,
    gameOver    |-> FALSE,
    explosion   |-> [active |-> FALSE, x |-> 0, y |-> 0, frame |-> 0],
    frameCount  |-> 0 ]

\* the values gapY = Math.random() * (BASE_HEIGHT - PIPE_GAP - 2*margin) + margin
\* is drawn from: Math.random() is in [0, 1), so gapY is in
\* [margin, BASE_HEIGHT - PIPE_GAP - margin)
GapYRange == GapMargin .. (BASE_HEIGHT - PIPE_GAP - GapMargin - 1)

\* Math.random() is a multiple of 1 / RandomDen in [0, 1): the value
\* r / RandomDen for an r in 0 .. RandomDen - 1
RandomDen == 600 * Unit

\* GapYOf without PIPE_GAP in the range of the draw
GapYOf_FullHeight(r) ==
  (r * (BASE_HEIGHT - 2 * GapMargin)) \div RandomDen + GapMargin

\* gapY: Math.random() * (BASE_HEIGHT - PIPE_GAP - 100) + 50 (lines 192, 201,
\* also createPipe, line 138), with 150 and 75 in the second variant (lines
\* 752, 761, 696), for Math.random() = r / RandomDen
GapYOf(r) ==
  (r * (BASE_HEIGHT - PIPE_GAP - 2 * GapMargin)) \div RandomDen + GapMargin

\* the draws of Math.random() explored for gapY: about the least and the
\* greatest value, and one in between (the one that puts the upper gap edge
\* at the top edge of an actor at the apex of its first jump).  In the first
\* variant the actor's y is a rounded double, so the outcome of an exact
\* tangency is not modelled there: its gapY are odd, off the (even) values
\* the actor's edges take.
RandomDraws ==
  IF variant = 1 THEN { 2, 2 * (146 * Unit + 1), RandomDen - 1 }
                 ELSE { 0, 3 * (146 * Unit), RandomDen - 1 }

GapYDraws == { GapYOf(r) : r \in RandomDraws }

-----------------------------------------------------------------------------
(* Pure parts of gameLoop.                                                   *)

\* HitsBoundary with the bounds taken as exclusive
HitsBoundary_Strict(bird) ==
  bird.y - bird.radius < 0 \/ bird.y + bird.radius > BASE_HEIGHT

\* the boundary test (lines 217 / 809, and 149 / 707 in checkCollision)
HitsBoundary(bird) ==
  bird.y - bird.radius <= 0 \/ bird.y + bird.radius >= BASE_HEIGHT

\* HitsPipe with the gap edges counted as part of the pipe
HitsPipe_ClosedGap(bird, pipe) ==
  /\ bird.x + bird.radius > pipe.x
  /\ bird.x - bird.radius < pipe.x + pipe.width
  /\ \/ bird.y - bird.radius <= pipe.gapY
     \/ bird.y + bird.radius >= pipe.gapY + pipe.gapHeight

\* the pipe test (lines 228-232 / 820-824, and 154-158 / 712-716)
HitsPipe(bird, pipe) ==
  /\ bird.x + bird.radius > pipe.x
  /\ bird.x - bird.radius < pipe.x + pipe.width
  /\ \/ bird.y - bird.radius < pipe.gapY
     \/ bird.y + bird.radius > pipe.gapY + pipe.gapHeight

\* checkCollision(bird, pipes)
checkCollision(bird, pipes) ==
  \/ HitsBoundary(bird)
  \/ \E i \in 1..Len(pipes) : HitsPipe(bird, pipes[i])

\* MoveBird with the two statements in the other order
MoveBird_PositionFirst(bird) ==
  [bird EXCEPT !.velocity = bird.velocity + GRAVITY, !.y = bird.y + bird.velocity]

\* velocity += GRAVITY; y += velocity
MoveBird(bird) ==
  LET v == bird.velocity + GRAVITY
  IN  [bird EXCEPT !.velocity = v, !.y = bird.y + v]

\* pipes.map(pipe => ({...pipe, x: pipe.x - PIPE_SPEED}))
MovePipes(pipes) ==
  [i \in 1..Len(pipes) |-> [pipes[i] EXCEPT !.x = @ - PIPE_SPEED]]

\* NewlyPassed without the `!pipe.passed` conjunct
NewlyPassed_Unflagged(bird, pipe) == bird.x > pipe.x + pipe.width

\* the forEach test: !pipe.passed && newBird.x > pipe.x + pipe.width
NewlyPassed(bird, pipe) ==
  ~pipe.passed /\ bird.x > pipe.x + pipe.width

\* MarkPassed that leaves the flags as they are
MarkPassed_Skipped(bird, pipes) == pipes

\* the forEach that marks pipes passed
MarkPassed(bird, pipes) ==
  [i \in 1..Len(pipes) |->
     IF NewlyPassed(bird, pipes[i]) THEN [pipes[i] EXCEPT !.passed = TRUE]
                                    ELSE pipes[i]]

\* ... and counts them into newScore
ScoreGain(bird, pipes) ==
  Cardinality({i \in 1..Len(pipes) : NewlyPassed(bird, pipes[i])})

\* OnScreen keeping a pipe whose trailing edge is on the left boundary
OnScreen_Inclusive(pipe) == pipe.x + pipe.width >= 0

\* the filter predicate: pipe.x + pipe.width > 0
OnScreen(pipe) == pipe.x + pipe.width > 0

\* the object pushed by a spawn
NewPipe(x, gapY) ==
  [x |-> x, width |-> PIPE_WIDTH, gapY |-> gapY, gapHeight |-> PIPE_GAP,
   passed |-> FALSE]

\* SpawnPipes without the `else if` branch: a pipe only when none is left
SpawnPipes_OnlyWhenEmpty(pipes, gapY) ==
  IF Len(pipes) = 0 THEN Append(pipes, NewPipe(FirstPipeX, gapY)) ELSE pipes

\* SpawnPipes with every pipe spawned at the x of the first one
SpawnPipes_AllFar(pipes, gapY) ==
  IF Len(pipes) = 0 \/ pipes[Len(pipes)].x < BASE_WIDTH - SpawnThreshold
    THEN Append(pipes, NewPipe(FirstPipeX, gapY))
    ELSE pipes

\* the spawn rule applied to the filtered sequence
SpawnPipes(pipes, gapY) ==
  IF Len(pipes) = 0
    THEN Append(pipes, NewPipe(FirstPipeX, gapY))
    ELSE IF pipes[Len(pipes)].x < BASE_WIDTH - SpawnThreshold
      THEN Append(pipes, NewPipe(BASE_WIDTH, gapY))
      ELSE pipes

\* does the spawn rule draw a gapY for this sequence?
Spawns(pipes) ==
  Len(pipes) = 0 \/ pipes[Len(pipes)].x < BASE_WIDTH - SpawnThreshold

\* the pipes after the started branch of one tick
StepPipes(bird, pipes, gapY) ==
  SpawnPipes(SelectSeq(MarkPassed(bird, MovePipes(pipes)), OnScreen), gapY)

\* one dolphin through the map callback (lines 773-787); y is not kept: it is
\* BASE_HEIGHT * 0.7 - sin(jumpPhase * PI) * 60, a function of jumpPhase read
\* by draw only
MoveDolphin(d) ==
  IF ~d.visible THEN d
  ELSE LET n == d.jumpPhase + 1
       IN  [d EXCEPT !.jumpPhase = n,
                     !.x = @ + d.direction * DolphinSpeed,
                     !.visible = (n <= DolphinLastPhase)]

\* DolphinKept without the visibility test
DolphinKept_OnPlayfield(d) == d.x > -50 * Unit /\ d.x < BASE_WIDTH + 50 * Unit

\* the filter predicate of line 788
DolphinKept(d) ==
  d.visible /\ d.x > -50 * Unit /\ d.x < BASE_WIDTH + 50 * Unit

\* the object pushed by a dolphin spawn (lines 792-801)
NewDolphin(direction) ==
  LET startX == IF direction = 1 THEN -30 * Unit ELSE BASE_WIDTH + 30 * Unit
  IN  [x |-> startX, jumpPhase |-> 0, direction |-> direction,
       visible |-> TRUE, startX |-> startX]

\* the dolphins after one tick; lucky is Math.random() < 0.7
StepDolphins(dolphins, newFrameCount, lucky, direction) ==
  LET kept == SelectSeq([i \in 1..Len(dolphins) |-> MoveDolphin(dolphins[i])],
                        DolphinKept)
  IN  IF newFrameCount % DolphinPeriod = 0 /\ lucky /\ Len(kept) < DolphinCap
        THEN Append(kept, NewDolphin(direction))
        ELSE kept

\* Explode without the actor's position
Explode_AtOrigin(bird) == [active |-> TRUE, x |-> 0, y |-> 0, frame |-> 0]

\* the explosion created on a collision
Explode(bird) == [active |-> TRUE, x |-> bird.x, y |-> bird.y, frame |-> 0]

\* StepExplosion left out of the tick
StepExplosion_Skipped(e) == e

\* StepExplosion without the `if (newExplosion.active)` guard
StepExplosion_Unguarded(e) ==
  LET f == e.frame + 1
  IN  [e EXCEPT !.frame = f, !.active = e.active /\ ~(f > ExplosionFrames)]

\* "Update explosion animation" (lines 246-251 / 838-843)
StepExplosion(e) ==
  IF e.active
    THEN LET f == e.frame + 1
         IN  [e EXCEPT !.frame = f, !.active = ~(f > ExplosionFrames)]
    ELSE e

\* Running without the guard
Running_Always(s) == TRUE

\* Running with the physics block never entered
Running_Never(s) == FALSE

\* the guard `if (prev.gameStarted)` of the physics block (line 175 / 735)
\* and of the collision block (line 216 / 808)
Running(s) == s.gameStarted

\* Advance with a score that also counts the dolphins on screen
Advance_ScoresDolphins(s, gapY, lucky, direction) ==
  LET newBird == IF Running(s) THEN MoveBird(s.bird) ELSE s.bird
      newPipes == IF Running(s) THEN StepPipes(newBird, s.pipes, gapY)
                                ELSE s.pipes
      newFrameCount == IF variant = 2 THEN s.frameCount + 1 ELSE s.frameCount
      newDolphins == IF variant = 2
                       THEN StepDolphins(s.dolphins, newFrameCount, lucky, direction)
                       ELSE s.dolphins
      newScore == IF Running(s)
                    THEN s.score + ScoreGain(newBird, MovePipes(s.pipes))
                           + Len(newDolphins)
                    ELSE s.score
      collision == Running(s) /\ checkCollision(newBird, newPipes)
      newExplosion == StepExplosion(IF collision THEN Explode(newBird)
                                                 ELSE s.explosion)
  IN  [s EXCEPT !.bird = newBird, !.pipes = newPipes, !.dolphins = newDolphins,
                !.score = newScore, !.gameOver = collision,
                !.explosion = newExplosion, !.frameCount = newFrameCount]

\* the body of the updater after its early return (lines 170-260 / 728-854)
Advance(s, gapY, lucky, direction) ==
  LET newBird == IF Running(s) THEN MoveBird(s.bird) ELSE s.bird
      newPipes == IF Running(s) THEN StepPipes(newBird, s.pipes, gapY)
                                ELSE s.pipes
      newScore == IF Running(s)
                    THEN s.score + ScoreGain(newBird, MovePipes(s.pipes))
                    ELSE s.score
      newFrameCount == IF variant = 2 THEN s.frameCount + 1 ELSE s.frameCount
      newDolphins == IF variant = 2
                       THEN StepDolphins(s.dolphins, newFrameCount, lucky, direction)
                       ELSE s.dolphins
      collision == Running(s) /\ checkCollision(newBird, newPipes)
      newExplosion == StepExplosion(IF collision THEN Explode(newBird)
                                                 ELSE s.explosion)
  IN  [s EXCEPT !.bird = newBird, !.pipes = newPipes, !.dolphins = newDolphins,
                !.score = newScore, !.gameOver = collision,
                !.explosion = newExplosion, !.frameCount = newFrameCount]

\* gameLoop without the early return
gameLoop_NoEarlyReturn(s, gapY, lucky, direction) ==
  Advance(s, gapY, lucky, direction)

\* the updater gameLoop hands to setGameState (lines 167-261 / 725-855):
\* `if (prev.gameOver) return prev`, then the body
gameLoop(s, gapY, lucky, direction) ==
  IF s.gameOver THEN s ELSE Advance(s, gapY, lucky, direction)

\* draw with the explosion animation advanced by the render pass
draw_StepsExplosion(s) == [s EXCEPT !.explosion = StepExplosion(@)]

\* the updater draw hands to setGameState (lines 271-474 / 865-1142): it
\* paints currentState on the canvas, reading it only, and returns it
draw(s) == s

\* animate with the render pass ahead of the update
animate_DrawFirst(s, gapY, lucky, direction) ==
  [gameState |-> gameLoop(draw(s), gapY, lucky, direction), drawn |-> s]

\* one animation frame (animate, lines 478-482 / 1146-1150): gameLoop()
\* queues its updater, then draw() queues its own, and React applies them in
\* that order, the second to the result of the first.  `drawn` is the state
\* draw's updater is given and paints, `gameState` the one it returns.
animate(s, gapY, lucky, direction) ==
  LET updated == gameLoop(s, gapY, lucky, direction)
  IN  [gameState |-> draw(updated), drawn |-> updated]

\* The object gameLoop's updater was given, as it reads once the updater
\* has returned.  The bird is copied ({...prev.bird}) and the pipes are
\* copied by the map before the forEach writes `passed`; the dolphin array
\* is copied ([...prev.dolphins]) but its records are not, and the map
\* callback of lines 773-787 assigns jumpPhase, x, y and visible on them.
gameLoopInPlace(s) ==
  IF s.gameOver \/ variant = 1 THEN s
  ELSE [s EXCEPT !.dolphins =
          [i \in 1..Len(s.dolphins) |-> MoveDolphin(s.dolphins[i])]]

\* the cleanup cancelling the request the effect body issued, whose id it
\* would have kept in a local
cancelAnimationFrame_FirstId(held, id) ==
  IF held = "mount" THEN "none" ELSE held

\* cancelAnimationFrame(id) on the request the browser holds: it is dropped
\* when the id is its own
cancelAnimationFrame(held, id) ==
  IF held = id THEN "none" ELSE held

\* Impulse that also clears gameOver
Impulse_ClearsOver(s, start) ==
  [s EXCEPT !.gameStarted = IF start THEN TRUE ELSE @,
            !.gameOver = FALSE,
            !.bird = [@ EXCEPT !.velocity = JUMP_FORCE]]

\* the updater of jump's first two branches (lines 122-131 / 680-689)
Impulse(s, start) ==
  [s EXCEPT !.gameStarted = IF start THEN TRUE ELSE @,
            !.bird = [@ EXCEPT !.velocity = JUMP_FORCE]]

\* resetGame carrying the score over into the new session
resetGame_KeepScore(s) == [InitialState EXCEPT !.score = s.score]

\* resetGame (lines 99-118 / 655-676): setGameState with a fresh object,
\* whatever the state s it replaces
resetGame(s) == InitialState

\* jump, as dispatched on the flags its closure captured
jump(s, deps) ==
  IF ~deps.gameStarted /\ ~deps.gameOver THEN Impulse(s, TRUE)
  ELSE IF deps.gameStarted /\ ~deps.gameOver THEN Impulse(s, FALSE)
  ELSE IF deps.gameOver THEN resetGame(s)
  ELSE s

\* the flags a render hands to useCallback as jump's dependencies
Deps(s) == [gameStarted |-> s.gameStarted, gameOver |-> s.gameOver]

-----------------------------------------------------------------------------
(* The environment: which random draws a tick consumes, when the player     *)
(* taps, how long a session is explored.                                    *)

\* does this tick reach one of the two gapY draws?
DrawsGapY(s) ==
  /\ ~s.gameOver /\ s.gameStarted
  /\ Spawns(SelectSeq(MovePipes(s.pipes), OnScreen))

\* does this tick reach the dolphin draws (line 791)?
DrawsDolphin(s) ==
  /\ variant = 2 /\ ~s.gameOver
  /\ (s.frameCount + 1) % DolphinPeriod = 0

\* the player taps when the session is at rest (before the start, after the
\* end) and, during play, this many ticks after the previous tap: shortly
\* before or at the apex of the jump, or when the actor is about back at the
\* height of the previous tap
TapSteps == IF variant = 1 THEN {23, 45, 46} ELSE {22, 24, 46}

TapAllowed(s) ==
  \/ s.gameOver
  \/ ~s.gameStarted
  \/ \E k \in TapSteps : s.bird.velocity = JUMP_FORCE + k * GRAVITY

TickAllowed(s) ==
  \/ s.gameOver
  \/ ~s.gameStarted /\ (variant = 1 \/ s.frameCount < MaxIdle)
  \/ s.gameStarted /\ s.score < MaxScore

-----------------------------------------------------------------------------
(* The state machine.                                                        *)

Init ==
  /\ variant \in {1, 2}
  /\ gameState = InitialState
  /\ jumpDeps = Deps(InitialState)
  /\ last = "mount"
  /\ prev = InitialState
  /\ drawn = << >>
  /\ twin = InitialState
  /\ mounted = TRUE
  /\ pending = "mount"
  /\ animationRef = "mount"

\* the effect of one animation frame on the component, for the draws of
\* Math.random() it consumes
Frame(gapY, lucky, direction) ==
  LET f == animate(gameState, gapY, lucky, direction)
  IN  /\ gameState' = f.gameState
      /\ drawn' = <<f.drawn>>
      /\ prev' = gameState
      /\ last' = "tick"
      /\ pending' = "animate"
      /\ animationRef' = "animate"
      /\ UNCHANGED <<variant, jumpDeps, mounted>>

\* one animation frame (animate, lines 478-482 / 1146-1150): gameLoop(), then
\* draw(), whose updater returns the state it is given
Tick ==
  /\ pending # "none"
  /\ TickAllowed(gameState)
  /\ \E gapY \in IF DrawsGapY(gameState) THEN GapYDraws ELSE {GapMargin} :
     \E lucky \in IF DrawsDolphin(gameState) THEN BOOLEAN ELSE {FALSE} :
     \E direction \in IF DrawsDolphin(gameState) /\ lucky THEN {1, -1} ELSE {1} :
       Frame(gapY, lucky, direction)
  /\ UNCHANGED twin

\* the effect of an input event on the component
Input ==
  /\ mounted
  /\ gameState' = jump(gameState, jumpDeps)
  /\ prev' = gameState
  /\ last' = IF jumpDeps.gameOver THEN "reset" ELSE "jump"
  /\ UNCHANGED <<variant, jumpDeps, drawn, mounted, pending, animationRef>>

\* a key press, touch or click (handleKeyPress, handleTouch, handleClick):
\* the bound jump callback runs with the flags it captured
Jump ==
  /\ TapAllowed(gameState)
  /\ Input
  /\ UNCHANGED twin

\* React renders the component with the current state and commits: the
\* handlers are bound to a jump callback that captured the current flags
Render ==
  /\ mounted
  /\ jumpDeps # Deps(gameState)
  /\ jumpDeps' = Deps(gameState)
  /\ UNCHANGED <<variant, gameState, last, prev, drawn, twin,
                 mounted, pending, animationRef>>

Next == Tick \/ Jump \/ Render

Spec == Init /\ [][Next]_vars

\* The same machine under the scheduling React gives the component in
\* practice: the render a state update schedules is committed before the
\* next animation frame runs, so a frame finds the handlers bound to the
\* current flags.  Input events still arrive at any moment, also between an
\* update and the render it schedules.
TickAfterRender == jumpDeps = Deps(gameState) /\ Tick

NextPrompt == TickAfterRender \/ Jump \/ Render

SpecPrompt == Init /\ [][NextPrompt]_vars

\* The same machine with the hosting view free to unmount the component at
\* any moment.  The cleanup of the animation effect (lines 486-490 /
\* 1154-1158) cancels the request animationRef.current holds, the cleanup
\* of the keydown effect removes the listener and the canvas goes with the
\* view, so no input event reaches jump any more.
Unmount ==
  /\ mounted
  /\ mounted' = FALSE
  /\ pending' = cancelAnimationFrame(pending, animationRef)
  /\ prev' = gameState
  /\ last' = "unmount"
  /\ UNCHANGED <<variant, gameState, jumpDeps, drawn, twin, animationRef>>

NextMounted == Tick \/ Jump \/ Render \/ Unmount

SpecMounted == Init /\ [][NextMounted]_vars

\* The same machine with frames that keep coming: animate re-arms its
\* request in every frame (line 481 / 1149) and the browser serves a pending
\* request, which is weak fairness of the frame.  Here every session is
\* explored to its end: the ticks go on whatever the score; the player taps
\* in the slowest of the rhythms of TapSteps, or lets the actor fall, and
\* stops tapping once the score has reached MaxScore.
TickAllowedFair(s) ==
  \/ s.gameOver
  \/ ~s.gameStarted /\ (variant = 1 \/ s.frameCount < MaxIdle)
  \/ s.gameStarted

TickFair ==
  /\ pending # "none"
  /\ TickAllowedFair(gameState)
  /\ \E gapY \in IF DrawsGapY(gameState) THEN GapYDraws ELSE {GapMargin} :
     \E lucky \in IF DrawsDolphin(gameState) THEN BOOLEAN ELSE {FALSE} :
     \E direction \in IF DrawsDolphin(gameState) /\ lucky THEN {1, -1} ELSE {1} :
       Frame(gapY, lucky, direction)
  /\ UNCHANGED twin

FairTapStep == CHOOSE k \in TapSteps : \A j \in TapSteps : j <= k

JumpFair ==
  /\ gameState.score < MaxScore
  /\ \/ gameState.gameOver
     \/ ~gameState.gameStarted
     \/ gameState.bird.velocity = JUMP_FORCE + FairTapStep * GRAVITY
  /\ Jump

NextFair == TickFair \/ JumpFair \/ Render

\* ENABLED <<TickFair>>_vars, spelled out: a frame is pending and allowed, and
\* for some draws it is no stuttering step (a frame stutters when the
\* updater returns the state it was given and the frame before has already
\* drawn that state)
FrameDue ==
  /\ pending # "none"
  /\ TickAllowedFair(gameState)
  /\ \E gapY \in IF DrawsGapY(gameState) THEN GapYDraws ELSE {GapMargin} :
     \E lucky \in IF DrawsDolphin(gameState) THEN BOOLEAN ELSE {FALSE} :
     \E direction \in IF DrawsDolphin(gameState) /\ lucky THEN {1, -1} ELSE {1} :
       LET f == animate(gameState, gapY, lucky, direction)
       IN  <<f.gameState, <<f.drawn>>, gameState, "tick", "animate", "animate">>
             # <<gameState, drawn, prev, last, pending, animationRef>>

\* WF_vars(TickFair), by its definition
FairFrames == []<>(~FrameDue) \/ []<><<TickFair>>_vars

SpecFair == Init /\ [][NextFair]_vars /\ FairFrames

\* Two runs of the component side by side, gameState and twin: they get the
\* same animation frames and input events and the same gapY draws, and each
\* its own dolphin draws (Math.random() < 0.7 and the direction, lines
\* 791-792).
PairTick ==
  /\ pending # "none"
  /\ TickAllowed(gameState)
  /\ \E gapY \in IF DrawsGapY(gameState) THEN GapYDraws ELSE {GapMargin} :
       /\ \E lucky \in IF DrawsDolphin(gameState) THEN BOOLEAN ELSE {FALSE} :
          \E direction \in IF DrawsDolphin(gameState) /\ lucky THEN {1, -1}
                                                               ELSE {1} :
            Frame(gapY, lucky, direction)
       /\ \E lucky \in IF DrawsDolphin(twin) THEN BOOLEAN ELSE {FALSE} :
          \E direction \in IF DrawsDolphin(twin) /\ lucky THEN {1, -1}
                                                          ELSE {1} :
            twin' = animate(twin, gapY, lucky, direction).gameState

PairJump ==
  /\ TapAllowed(gameState)
  /\ Input
  /\ twin' = jump(twin, jumpDeps)

NextPair == PairTick \/ PairJump \/ Render

SpecPair == Init /\ [][NextPair]_vars

TypeOK ==
  /\ variant \in {1, 2}
  /\ gameState.score \in 0..MaxScore
  /\ gameState.gameStarted \in BOOLEAN
  /\ gameState.gameOver \in BOOLEAN
  /\ last \in {"mount", "tick", "jump", "reset", "unmount"}
  /\ mounted \in BOOLEAN
  /\ pending \in {"none", "mount", "animate"}
  /\ animationRef \in {"mount", "animate"}

\* Validity of the grid for the first variant, whose GRAVITY 0.3 is no
\* double: the code's y differs from the modelled one by rounding errors far
\* below one grid step, so every comparison of the code has the modelled
\* outcome unless the modelled operands are equal.  Where a comparison
\* decides a collision they never are.
FloatSafe ==
  variant = 1 =>
    LET b == gameState.bird
    IN  /\ b.y - b.radius # 0
        /\ b.y + b.radius # BASE_HEIGHT
        /\ \A i \in 1..Len(gameState.pipes) :
             LET p == gameState.pipes[i]
             IN  b.x + b.radius > p.x /\ b.x - b.radius < p.x + p.width =>
                   /\ b.y - b.radius # p.gapY
                   /\ b.y + b.radius # p.gapY + p.gapHeight

-----------------------------------------------------------------------------
(* Properties.  `last` and `prev` make the effect of the last operation a   *)
(* state predicate: prev is the state the operation was applied to.         *)

\* the last operation was a tick applied to a started session that was not over
AfterLiveTick == last = "tick" /\ prev.gameStarted /\ ~prev.gameOver

\* the last operation was an input event (whichever branch jump took)
AfterInput == last \in {"jump", "reset"}

SamePipePositions(ps, qs) ==
  /\ Len(ps) = Len(qs)
  /\ \A i \in 1..Len(ps) : ps[i].x = qs[i].x /\ ps[i].passed = qs[i].passed

\* C1: once over is true, every tick leaves over true and leaves the actor's
\* y and velocity, every obstacle's x and passed flag and the score as they
\* were; and no operation but a reset makes over false again.
C1_FrozenWhileOver ==
  /\ (last = "tick" /\ prev.gameOver) =>
       /\ gameState.gameOver
       /\ gameState.bird.y = prev.bird.y
       /\ gameState.bird.velocity = prev.bird.velocity
       /\ SamePipePositions(gameState.pipes, prev.pipes)
       /\ gameState.score = prev.score
  /\ (prev.gameOver /\ last # "reset") => gameState.gameOver

C1_Witness ==
  /\ last = "tick" /\ prev.gameOver /\ gameState.gameOver
  /\ Len(gameState.pipes) > 0

\* C2 (as claimed): an input event handled while the current state is over
\* resets the session to the pre-start state and never gives the actor of an
\* over session the impulse.
C2_InputWhenOverResets ==
  (AfterInput /\ prev.gameOver) =>
    /\ gameState = InitialState
    /\ ~(gameState.gameOver /\ gameState.bird.velocity = JUMP_FORCE)

\* C3 (as claimed): an input event handled while the session is not over
\* sets the velocity to JUMP_FORCE, sets started, and leaves the actor's x
\* and y, the obstacles, the score, over and the explosion as they were.
C3_InputWhenNotOverJumps ==
  (AfterInput /\ ~prev.gameOver) =>
    /\ gameState.bird.velocity = JUMP_FORCE
    /\ gameState.gameStarted
    /\ gameState.bird.x = prev.bird.x
    /\ gameState.bird.y = prev.bird.y
    /\ gameState.pipes = prev.pipes
    /\ gameState.score = prev.score
    /\ gameState.gameOver = prev.gameOver
    /\ gameState.explosion = prev.explosion

\* C4: a tick on a started session that is not over adds GRAVITY to the
\* velocity and then adds the new velocity to y; the actor's x and radius
\* are the initial ones in every state.
C4_EulerStep ==
  /\ AfterLiveTick =>
       /\ gameState.bird.velocity = prev.bird.velocity + GRAVITY
       /\ gameState.bird.y = prev.bird.y + gameState.bird.velocity
  /\ gameState.bird.x = InitialState.bird.x
  /\ gameState.bird.radius = InitialState.bird.radius

C4_Witness ==
  /\ AfterLiveTick
  /\ prev.bird.velocity < 0 /\ gameState.bird.velocity > 0
  /\ ~gameState.gameOver

\* C5: a tick on a session that is not started leaves the actor's x, y and
\* velocity as they were, leaves the obstacle sequence empty, the score 0
\* and over false.
C5_IdleTick ==
  (last = "tick" /\ ~prev.gameStarted) =>
    /\ gameState.bird.x = prev.bird.x
    /\ gameState.bird.y = prev.bird.y
    /\ gameState.bird.velocity = prev.bird.velocity
    /\ gameState.pipes = prev.pipes
    /\ gameState.pipes = << >>
    /\ gameState.score = 0
    /\ ~gameState.gameOver

C5_Witness ==
  /\ last = "tick" /\ ~prev.gameStarted
  /\ gameState.frameCount > prev.frameCount

\* the actor's edge lies exactly on the top or the bottom bound
Tangent(bird) ==
  bird.y - bird.radius = 0 \/ bird.y + bird.radius = BASE_HEIGHT

\* the actor's horizontal span and the obstacle's overlap with positive length
Overlap(bird, pipe) ==
  LET lo == IF pipe.x > bird.x - bird.radius THEN pipe.x ELSE bird.x - bird.radius
      hi == IF pipe.x + pipe.width < bird.x + bird.radius
              THEN pipe.x + pipe.width ELSE bird.x + bird.radius
  IN  hi - lo > 0

\* the actor's vertical span lies fully inside the obstacle's gap band
InsideGap(bird, pipe) ==
  pipe.gapY <= bird.y - bird.radius /\ bird.y + bird.radius <= pipe.gapY + pipe.gapHeight

\* some obstacle of the sequence is hit
PipeHit(bird, pipes) ==
  \E i \in 1..Len(pipes) : Overlap(bird, pipes[i]) /\ ~InsideGap(bird, pipes[i])

\* C6 (as claimed): an actor whose edge is exactly on a bound after the
\* tick's move, and that hits no obstacle, is not colliding: the tick does
\* not set over; an actor one unit further out is colliding.
C6_TangentIsSafe ==
  AfterLiveTick =>
    /\ (Tangent(gameState.bird) /\ ~PipeHit(gameState.bird, gameState.pipes))
         => ~gameState.gameOver
    /\ (\/ gameState.bird.y - gameState.bird.radius <= -Unit
        \/ gameState.bird.y + gameState.bird.radius >= BASE_HEIGHT + Unit)
         => gameState.gameOver

\* C6 (amended): the bounds are inclusive: an actor whose top edge is at or
\* above 0, or whose bottom edge is at or below the playfield height, after
\* the tick's move is colliding and the tick sets over; an actor whose edges
\* are strictly inside the bounds and that hits no obstacle is not.
C6_TangentCollides ==
  AfterLiveTick =>
    /\ (\/ gameState.bird.y - gameState.bird.radius <= 0
        \/ gameState.bird.y + gameState.bird.radius >= BASE_HEIGHT)
         => gameState.gameOver
    /\ (/\ gameState.bird.y - gameState.bird.radius > 0
        /\ gameState.bird.y + gameState.bird.radius < BASE_HEIGHT
        /\ ~PipeHit(gameState.bird, gameState.pipes))
         => ~gameState.gameOver

C6_Witness ==
  AfterLiveTick /\ Tangent(gameState.bird) /\ gameState.gameOver

\* C7: a tick on a started session that is not over, whose actor stays
\* strictly inside the vertical bounds, sets over exactly when some obstacle
\* of the updated sequence overlaps the actor horizontally with positive
\* length while the actor's vertical span is not fully inside its gap band
\* (an edge on a gap edge is inside); and the actor at (100, 300) of radius
\* 10 collides with the obstacle x = 90, width 60, gapY 100, gapHeight 200.
C7_PipeCollision ==
  /\ (/\ AfterLiveTick
      /\ gameState.bird.y - gameState.bird.radius > 0
      /\ gameState.bird.y + gameState.bird.radius < BASE_HEIGHT)
       => (gameState.gameOver <=> PipeHit(gameState.bird, gameState.pipes))
  /\ checkCollision(
       [x |-> 100 * Unit, y |-> 300 * Unit, velocity |-> 0, radius |-> 10 * Unit],
       << [x |-> 90 * Unit, width |-> 60 * Unit, gapY |-> 100 * Unit,
           gapHeight |-> 200 * Unit, passed |-> FALSE] >>)

C7_Witness ==
  /\ AfterLiveTick /\ gameState.gameOver
  /\ gameState.bird.y - gameState.bird.radius > 0
  /\ gameState.bird.y + gameState.bird.radius < BASE_HEIGHT

\* a state of C7's other case: the actor's edge exactly on a gap edge of an
\* obstacle it overlaps, and no collision
C7_OnGapEdge ==
  /\ AfterLiveTick /\ ~gameState.gameOver
  /\ \E i \in 1..Len(gameState.pipes) :
       /\ Overlap(gameState.bird, gameState.pipes[i])
       /\ \/ gameState.bird.y - gameState.bird.radius = gameState.pipes[i].gapY
          \/ gameState.bird.y + gameState.bird.radius
               = gameState.pipes[i].gapY + gameState.pipes[i].gapHeight

\* C8: the tick that detects a collision sets over and activates the
\* explosion, centred on the actor's position after that tick's move; a tick
\* that detects none neither sets over nor activates the explosion.
C8_CollisionTick ==
  (last = "tick" /\ ~prev.gameOver) =>
    IF prev.gameStarted /\ checkCollision(gameState.bird, gameState.pipes)
      THEN /\ gameState.gameOver
           /\ gameState.explosion.active
           /\ gameState.explosion.x = gameState.bird.x
           /\ gameState.explosion.y = gameState.bird.y
           /\ gameState.explosion.y = prev.bird.y + prev.bird.velocity + GRAVITY
      ELSE /\ ~gameState.gameOver
           /\ ~gameState.explosion.active

C8_Witness ==
  /\ last = "tick" /\ ~prev.gameOver /\ gameState.gameOver
  /\ gameState.explosion.active
  /\ gameState.explosion.y = gameState.bird.y

\* C9 (as claimed): once a collision has activated the explosion, every tick
\* increases its frame counter by 1 (so that it exceeds 30 and the explosion
\* becomes inactive).
C9_ExplosionAdvances ==
  (last = "tick" /\ prev.explosion.active) =>
    gameState.explosion.frame = prev.explosion.frame + 1

\* the explosion was active while the tick updated it: it was active before
\* the tick, or the tick detected a collision
ActiveInTick == prev.explosion.active \/ (~prev.gameOver /\ gameState.gameOver)

\* C10: a tick changes the explosion's frame counter only if the explosion
\* is active in it, and no tick leaves an explosion that was active in it
\* inactive with a counter of 30 or less.
C10_ExplosionCounter ==
  last = "tick" =>
    /\ gameState.explosion.frame # prev.explosion.frame => ActiveInTick
    /\ (ActiveInTick /\ ~gameState.explosion.active)
         => gameState.explosion.frame > ExplosionFrames

C10_Witness ==
  /\ last = "tick" /\ ActiveInTick
  /\ gameState.explosion.frame # prev.explosion.frame
  /\ gameState.explosion.active

\* the pipes of a state that are behind the actor: the actor's x is strictly
\* greater than their trailing edge
Behind(s) ==
  {i \in 1..Len(s.pipes) : s.bird.x > s.pipes[i].x + s.pipes[i].width}

\* the pipes of the state before a tick that the tick moves behind the actor
MovedBehind(s) ==
  {i \in 1..Len(s.pipes) :
     /\ ~(s.bird.x > s.pipes[i].x + s.pipes[i].width)
     /\ s.bird.x > s.pipes[i].x - PIPE_SPEED + s.pipes[i].width}

\* C11: an obstacle's passed flag is true exactly from the first tick after
\* which the actor's x is strictly greater than the obstacle's x + width (so
\* it turns true once and never back, obstacles only moving left); that
\* tick adds exactly 1 to the score for each such obstacle, and the score
\* changes in no other way except by a reset, which makes it 0.
C11_PassedOnceScoredOnce ==
  /\ \A i \in 1..Len(gameState.pipes) :
       gameState.pipes[i].passed <=> i \in Behind(gameState)
  /\ AfterLiveTick =>
       gameState.score = prev.score + Cardinality(MovedBehind(prev))
  /\ (last = "tick" /\ ~AfterLiveTick) => gameState.score = prev.score
  /\ last = "jump" => gameState.score = prev.score
  /\ last = "reset" => gameState.score = 0

C11_Witness ==
  /\ AfterLiveTick
  /\ gameState.score = prev.score + 1
  /\ \E i \in 1..Len(gameState.pipes) :
       gameState.pipes[i].passed /\ ~prev.pipes[i].passed

\* qs holds the pipes of ps from the (k+1)-th on, each moved left by one
\* step, in the order they have in ps, followed by `fresh` new pipes
Survivors(ps, qs, k, fresh) ==
  /\ Len(qs) = Len(ps) - k + fresh
  /\ \A i \in 1..(Len(ps) - k) :
       /\ qs[i].x = ps[i + k].x - PIPE_SPEED
       /\ qs[i].gapY = ps[i + k].gapY
  /\ \A i \in (Len(ps) - k + 1)..Len(qs) :
       ~qs[i].passed /\ qs[i].x >= BASE_WIDTH

\* C12: after every tick the pipes are in spawn order: a tick keeps the
\* surviving pipes in the order they had and puts the pipe it spawns after
\* all of them (so the sequence, empty at first, lists older pipes before
\* younger ones, which is left to right); and no pipe of the sequence is
\* fully off-screen to the left (x + width <= 0).
C12_SpawnOrderOnScreen ==
  /\ AfterLiveTick =>
       \E k \in 0..Len(prev.pipes) : \E fresh \in {0, 1} :
         Survivors(prev.pipes, gameState.pipes, k, fresh)
  /\ (last = "tick" /\ ~AfterLiveTick) => gameState.pipes = prev.pipes
  /\ \A i \in 1..Len(gameState.pipes) :
       /\ ~(gameState.pipes[i].x + gameState.pipes[i].width <= 0)
       /\ \A j \in 1..(i - 1) : gameState.pipes[j].x < gameState.pipes[i].x

\* a tick has removed the oldest pipe and kept a younger one
C12_Witness ==
  /\ AfterLiveTick
  /\ Len(prev.pipes) >= 2
  /\ Len(gameState.pipes) >= 1
  /\ gameState.pipes[1].x = prev.pipes[2].x - PIPE_SPEED
  /\ prev.pipes[1].x - PIPE_SPEED + prev.pipes[1].width <= 0

\* the pipe is ahead of the actor: not passed, its trailing edge not left of
\* the actor's x
Ahead(bird, pipe) == ~pipe.passed /\ ~(pipe.x + pipe.width < bird.x)

\* C13: after every tick executed while the session is started, at least
\* one pipe of the sequence is ahead of the actor.
C13_PipeAhead ==
  (last = "tick" /\ prev.gameStarted) =>
    \E i \in 1..Len(gameState.pipes) :
      Ahead(gameState.bird, gameState.pipes[i])

\* the tick in which the actor leaves a pipe behind: a younger one is ahead
C13_Witness ==
  /\ AfterLiveTick
  /\ Len(gameState.pipes) >= 2
  /\ gameState.pipes[1].passed /\ ~prev.pipes[1].passed
  /\ Ahead(gameState.bird, gameState.pipes[2])

\* indices of the pipes of s that one step to the left leaves on screen
KeptByTick(s) ==
  {i \in 1..Len(s.pipes) : s.pipes[i].x - PIPE_SPEED + s.pipes[i].width > 0}

\* the gap of the pipe lies inside the playfield with the variant's margin
GapInBounds(pipe) ==
  LET margin == IF variant = 1 THEN 50 * Unit ELSE 75 * Unit
  IN  margin <= pipe.gapY /\ pipe.gapY + pipe.gapHeight <= BASE_HEIGHT - margin

\* C14: a tick of a started session spawns at most one pipe: at
\* x = BASE_WIDTH + 150 when no pipe is left after the removal; otherwise at
\* x = BASE_WIDTH exactly when the last pipe's x after the move is less than
\* BASE_WIDTH minus the threshold (200 in the first variant, 250 in the
\* second); otherwise none.  The new pipe is the last of the sequence, not
\* passed, with its gap in bounds; a tick on an empty sequence leaves
\* exactly one pipe, at x = BASE_WIDTH + 150.
C14_SpawnRule ==
  AfterLiveTick =>
    LET kept == KeptByTick(prev)
        spawned == Len(gameState.pipes) - Cardinality(kept)
        threshold == IF variant = 1 THEN 200 * Unit ELSE 250 * Unit
        new == gameState.pipes[Len(gameState.pipes)]
    IN  /\ spawned \in {0, 1}
        /\ kept = {} => spawned = 1 /\ new.x = BASE_WIDTH + 150 * Unit
        /\ kept # {} =>
             LET lastX == prev.pipes[CHOOSE i \in kept :
                                      \A j \in kept : j <= i].x - PIPE_SPEED
             IN  /\ spawned = 1 <=> lastX < BASE_WIDTH - threshold
                 /\ spawned = 1 => new.x = BASE_WIDTH
        /\ spawned = 1 => ~new.passed /\ GapInBounds(new)
        /\ prev.pipes = << >> =>
             Len(gameState.pipes) = 1 /\ new.x = BASE_WIDTH + 150 * Unit

\* a tick has spawned a pipe behind the ones it kept
C14_Witness ==
  /\ AfterLiveTick
  /\ Len(prev.pipes) >= 1
  /\ Len(gameState.pipes) = Len(prev.pipes) + 1
  /\ gameState.pipes[Len(gameState.pipes)].x = BASE_WIDTH

\* the first tick of a started session spawns into the empty sequence
C14_FirstSpawn ==
  AfterLiveTick /\ prev.pipes = << >> /\ Len(gameState.pipes) = 1

\* C15: every pipe of every reachable state has margin <= gapY and
\* gapY + gapHeight <= BASE_HEIGHT - margin (margin 50 and gap height 200 in
\* the first variant, 75 and 250 in the second) and the variant's width;
\* a tick leaves gapY, gapHeight and width of the pipes it keeps as they
\* were, and no other operation but a reset touches the pipes.
C15_GapInsidePlayfield ==
  /\ \A i \in 1..Len(gameState.pipes) :
       /\ GapInBounds(gameState.pipes[i])
       /\ gameState.pipes[i].gapHeight =
            IF variant = 1 THEN 200 * Unit ELSE 250 * Unit
       /\ gameState.pipes[i].width = 60 * Unit
  /\ AfterLiveTick =>
       \A i \in KeptByTick(prev) :
         \E j \in 1..Len(gameState.pipes) :
           /\ gameState.pipes[j].x = prev.pipes[i].x - PIPE_SPEED
           /\ gameState.pipes[j].gapY = prev.pipes[i].gapY
           /\ gameState.pipes[j].gapHeight = prev.pipes[i].gapHeight
           /\ gameState.pipes[j].width = prev.pipes[i].width
  /\ last = "jump" => gameState.pipes = prev.pipes

\* a tick has kept a pipe whose gap is as low as the draw allows, next to
\* one whose gap is as high as it allows
C15_Witness ==
  /\ AfterLiveTick
  /\ Len(prev.pipes) >= 2 /\ Len(gameState.pipes) >= 2
  /\ \E i \in 1..Len(gameState.pipes) :
       gameState.pipes[i].gapY + gameState.pipes[i].gapHeight
         = BASE_HEIGHT - GapMargin - 1
  /\ \E i \in 1..Len(gameState.pipes) :
       gameState.pipes[i].gapY <= GapMargin + 1

\* the session state of the claim, spelled out
FreshSession ==
  [ bird        |-> [x |-> 100 * Unit, y |-> 300 * Unit, velocity |-> 0,
                     radius |-> 10 * Unit],
    pipes       |-> << >>,
    dolphins    |-> << >>,
    score       |-> 0,
    gameStarted |-> FALSE,
    gameOver    |-> FALSE,
    explosion   |-> [active |-> FALSE, x |-> 0, y |-> 0, frame |-> 0],
    frameCount  |-> 0 ]

\* C16: a reset, whatever the state it is applied to, yields exactly the
\* initial session state: actor at (BASE_WIDTH/4, BASE_HEIGHT/2) with
\* velocity 0, no pipes, no dolphins, score 0, started and over false,
\* explosion inactive with frame 0, frame counter 0; so nothing of the old
\* session survives and a reset of a reset session changes nothing.
C16_ResetIsInitial ==
  last = "reset" =>
    /\ gameState = FreshSession
    /\ gameState.bird.x * 4 = BASE_WIDTH /\ gameState.bird.y * 2 = BASE_HEIGHT
    /\ prev = FreshSession => gameState = prev

\* a reset of an over session that had a score, pipes and a frame count
C16_Witness ==
  /\ last = "reset"
  /\ prev.gameOver /\ prev.explosion.active
  /\ prev.score > 0 /\ Len(prev.pipes) > 0
  /\ variant = 2 => prev.frameCount > 0

\* a reset applied to a session that a reset has just produced
C16_ResetTwice == last = "reset" /\ prev = FreshSession

\* a reset that clears dolphins
C16_ResetWithDolphins == last = "reset" /\ Len(prev.dolphins) > 0

\* the part of the session state that is play
Play(s) ==
  [bird |-> s.bird, pipes |-> s.pipes, score |-> s.score,
   gameStarted |-> s.gameStarted, gameOver |-> s.gameOver,
   explosion |-> s.explosion]

\* C17: dolphins do not influence play: two runs given the same ticks,
\* jumps and resets and the same gapY draws, but their own dolphin draws,
\* have the same actor, pipes, score, started, over and explosion after
\* every step.
C17_DolphinsApart == Play(gameState) = Play(twin)

\* the two runs differ in their dolphins while the session is played and
\* a point has been scored
C17_Witness ==
  /\ AfterLiveTick
  /\ gameState.dolphins # twin.dolphins
  /\ gameState.score > 0 /\ Len(gameState.pipes) > 0

\* C18: a render pass leaves the session state unchanged: the state after
\* draw equals, field for field, the state draw was given, in every frame.
C18_DrawKeepsState ==
  last = "tick" => drawn = <<gameState>>

\* a render pass on a collided session: actor, pipes, score and an active
\* explosion are all there to be kept
C18_Witness ==
  /\ last = "tick" /\ drawn # << >>
  /\ gameState.gameOver /\ gameState.explosion.active
  /\ Len(gameState.pipes) > 0 /\ gameState.score > 0

\* C19 (as claimed): a tick replaces the session snapshot and does not
\* modify the previous one in place: every actor, pipe and dolphin record of
\* the state the tick was applied to has the same field values after it.
C19_PreviousUntouched ==
  last = "tick" => gameLoopInPlace(prev) = prev

\* C20: in every animation frame the update is applied before the render
\* pass, and the render pass draws the state that frame's update produced,
\* not the state before it: the canvas shows the moved actor, the score
\* and the collision of the very frame.
C20_DrawsUpdatedState ==
  /\ last = "tick" =>
       /\ Len(drawn) = 1
       /\ drawn[1].score = gameState.score
       /\ drawn[1].gameOver = gameState.gameOver
  /\ AfterLiveTick =>
       /\ drawn[1].bird.velocity = prev.bird.velocity + GRAVITY
       /\ drawn[1].bird.y = prev.bird.y + prev.bird.velocity + GRAVITY
       /\ \A i \in 1..Len(prev.pipes) :
            \A j \in 1..Len(drawn[1].pipes) : drawn[1].pipes[j].x # prev.pipes[i].x
  /\ (last = "tick" /\ variant = 2 /\ ~prev.gameOver) =>
       drawn[1].frameCount = prev.frameCount + 1

\* the frame of a collision: what is drawn is the over session with its
\* explosion, which the state before the frame did not have
C20_Witness ==
  /\ AfterLiveTick
  /\ drawn # << >>
  /\ drawn[1].gameOver /\ drawn[1].explosion.active
  /\ ~prev.explosion.active
  /\ drawn[1].bird.y # prev.bird.y

\* C21: after the hosting view is unmounted no further tick or render pass
\* runs: the cleanup has cancelled the animation-frame request that was
\* pending at that moment, whatever number of frames ran before, so the
\* unmount stays the last operation.
C21_NoFrameAfterUnmount ==
  ~mounted => pending = "none" /\ last = "unmount"

\* unmounted in the middle of a session, many frames after the mount
C21_Witness ==
  /\ ~mounted
  /\ gameState.gameStarted /\ ~gameState.gameOver
  /\ gameState.score > 0
  /\ animationRef = "animate"

\* unmounted before the first frame ran
C21_UnmountAtOnce == ~mounted /\ animationRef = "mount"

\* C22: in every reachable state over implies started; started turns true
\* only by a jump and false only by a reset; over turns true only by a tick
\* on a started session and false only by a reset.
C22_StartedOverLifecycle ==
  /\ gameState.gameOver => gameState.gameStarted
  /\ (~prev.gameStarted /\ gameState.gameStarted) => last = "jump"
  /\ (prev.gameStarted /\ ~gameState.gameStarted) => last = "reset"
  /\ (~prev.gameOver /\ gameState.gameOver) =>
       last = "tick" /\ prev.gameStarted
  /\ (prev.gameOver /\ ~gameState.gameOver) => last = "reset"

\* the tick of a collision, and before it the jump that started the session
C22_Witness ==
  /\ last = "tick"
  /\ prev.gameStarted /\ ~prev.gameOver
  /\ gameState.gameOver /\ gameState.gameStarted

\* an input event that found the session over and did not reset it: over
\* and started are kept
C22_JumpOnOver ==
  /\ last = "jump"
  /\ prev.gameOver /\ gameState.gameOver /\ gameState.gameStarted

\* C23: there are never more than 2 dolphins; one is added only by a tick
\* whose new frame counter is a multiple of 180; and every dolphin kept by a
\* tick is visible, has a jump phase of at most 1 (20 steps of 0.05) and an
\* x strictly between -50 and BASE_WIDTH + 50.
C23_DolphinCycle ==
  /\ Len(gameState.dolphins) <= 2
  /\ Len(gameState.dolphins) > Len(prev.dolphins) =>
       /\ last = "tick"
       /\ gameState.frameCount % 180 = 0
       /\ Len(gameState.dolphins) = Len(prev.dolphins) + 1
  /\ \A i \in 1..Len(gameState.dolphins) :
       LET d == gameState.dolphins[i]
       IN  /\ d.visible
           /\ d.jumpPhase <= 20
           /\ d.x > -50 * Unit /\ d.x < (400 + 50) * Unit
           /\ d.jumpPhase = 0 => gameState.frameCount % 180 = 0

\* a tick has kept a dolphin in the last step of its jump
C23_Witness ==
  /\ last = "tick" /\ ~prev.gameOver
  /\ Len(prev.dolphins) = 1 /\ Len(gameState.dolphins) = 1
  /\ gameState.dolphins[1].jumpPhase = DolphinLastPhase

\* a tick has dropped a dolphin at the end of its jump
C23_DolphinGone ==
  /\ last = "tick"
  /\ Len(prev.dolphins) = 1 /\ Len(gameState.dolphins) = 0

C25_FallEnds ==
  <>[][~JumpFair]_vars =>
    [](gameState.gameStarted => <>(gameState.gameOver \/ ~gameState.gameStarted))

\* a fall has ended: the tick of a collision, more ticks after the last
\* input event than the player ever waits
C25_Witness ==
  /\ AfterLiveTick
  /\ gameState.gameOver
  /\ gameState.bird.velocity > JUMP_FORCE + (FairTapStep + 1) * GRAVITY

\* a fall that ended in a pipe
C25_FallIntoPipe ==
  /\ C25_Witness
  /\ PipeHit(gameState.bird, gameState.pipes)
  /\ ~HitsBoundary(gameState.bird)

\* the pipes of the sequence that are marked passed
PassedIn(s) == {i \in 1..Len(s.pipes) : s.pipes[i].passed}

\* the pipes of s that the next tick removes
RemovedByTick(s) == (1..Len(s.pipes)) \ KeptByTick(s)

\* C26: the score is the number of pipes spawned in the session that have
\* been marked passed, those still in the sequence and those removed from
\* it: it is 0 with an empty sequence after a reset, an input event keeps
\* score and pipes, and a tick raises the score less the passed pipes of
\* the sequence by the number of pipes it removes; and every pipe a tick
\* removes is marked passed, so none leaves the playfield unscored.
C26_ScoreCountsPassed ==
  /\ last \in {"mount", "reset"} =>
       gameState.score = 0 /\ gameState.pipes = << >>
  /\ last = "jump" =>
       gameState.score = prev.score /\ gameState.pipes = prev.pipes
  /\ last = "tick" =>
       LET removed == IF AfterLiveTick THEN RemovedByTick(prev) ELSE {}
       IN  /\ gameState.score - Cardinality(PassedIn(gameState))
                = prev.score - Cardinality(PassedIn(prev)) + Cardinality(removed)
           /\ \A i \in removed : prev.pipes[i].passed

\* a tick has removed a pipe: the score counts it though it is gone
C26_Witness ==
  /\ AfterLiveTick
  /\ RemovedByTick(prev) # {}
  /\ gameState.score > Cardinality(PassedIn(gameState))

\* C27: in every reachable state the x of the pipes strictly increase along
\* the sequence and adjacent pipes are more than 200 units apart, the
\* actor's horizontal span overlaps at most one pipe, a tick raises the
\* score by at most 1, and the sequence holds at most 3 pipes.
C27_PipesApart ==
  /\ \A i \in 1..(Len(gameState.pipes) - 1) :
       gameState.pipes[i + 1].x - gameState.pipes[i].x > 200 * Unit
  /\ Cardinality({i \in 1..Len(gameState.pipes) :
                    Overlap(gameState.bird, gameState.pipes[i])}) <= 1
  /\ last = "tick" => gameState.score <= prev.score + 1
  /\ Len(gameState.pipes) <= 3

\* three pipes at once, just after a point was scored
C27_Witness ==
  /\ last = "tick"
  /\ Len(gameState.pipes) = 3
  /\ gameState.score > 0

\* the actor between the walls of a pipe, the next pipe on the playfield
C27_BetweenWalls ==
  /\ Len(gameState.pipes) >= 2
  /\ \E i \in 1..Len(gameState.pipes) :
       Overlap(gameState.bird, gameState.pipes[i])

\* adjacent pipes as close as they get in either variant
C27_Closest ==
  /\ Len(gameState.pipes) >= 2
  /\ gameState.pipes[2].x - gameState.pipes[1].x =
       IF variant = 1 THEN 202 * Unit ELSE 250 * Unit + 10

\* the tick has spawned a pipe: the last pipe of the sequence is a new one
SpawnedByTick ==
  /\ AfterLiveTick
  /\ Len(gameState.pipes) = Cardinality(KeptByTick(prev)) + 1

\* C28: within one session the spawn into the empty sequence, at
\* x = BASE_WIDTH + 150, happens exactly once, on the first tick after the
\* session starts: that tick finds the sequence empty and leaves this one
\* pipe, no later tick finds or leaves it empty until a reset, and every
\* later spawn is at x = BASE_WIDTH.
C28_FirstSpawnOnce ==
  /\ (AfterLiveTick /\ prev.pipes = << >>) =>
       /\ Len(gameState.pipes) = 1
       /\ gameState.pipes[1].x = BASE_WIDTH + 150 * Unit
       /\ prev.score = 0
  /\ AfterLiveTick => gameState.pipes # << >>
  /\ (gameState.gameStarted /\ gameState.pipes = << >>) => last = "jump"
  /\ (prev.pipes # << >> /\ gameState.pipes = << >>) => last = "reset"
  /\ (SpawnedByTick /\ prev.pipes # << >>) =>
       gameState.pipes[Len(gameState.pipes)].x = BASE_WIDTH
  /\ \A i \in 1..Len(gameState.pipes) :
       gameState.pipes[i].x = BASE_WIDTH + 150 * Unit =>
         i = 1 /\ Len(gameState.pipes) = 1

\* a later spawn of a session: the first pipe is gone, the sequence is not
\* empty and the new pipe is on the right boundary
C28_Witness ==
  /\ SpawnedByTick
  /\ gameState.score >= 1
  /\ Len(prev.pipes) >= 1
  /\ gameState.pipes[Len(gameState.pipes)].x = BASE_WIDTH
====
